---- MODULE Spec2Model ----
(***************************************************************************)
(* Session lifecycle of mcp-pyboy: GameSession (mcp_pyboy/session.py)      *)
(* wrapping one PyBoyEmulator handle (mcp_server/emulator.py), driven by   *)
(* the tool functions of mcp_pyboy/server.py.                              *)
(*                                                                         *)
(* Callers are asyncio tasks on one event loop: a task gives up control    *)
(* only at an await.  The awaits of the session are the acquisitions of    *)
(* the session lock.  The model is at least as permissive: a task may be   *)
(* switched out when it waits for the lock and right after it has acquired *)
(* it (in load_rom: after the state has been set to LOADING, the position  *)
(* in which a concurrent reader can see LOADING).  The code                *)
(* that runs without the lock and without an await (ensure_running's state *)
(* test, get_emulator's ready test, the tool body that drives the engine,  *)
(* the metric recorders) is never interleaved with another task: see       *)
(* AwaitPoints and Scheduled.                                              *)
(***************************************************************************)
EXTENDS Integers, FiniteSets, Sequences, TLC

\* ---------------------------------------------------------------- bounds
MaxEngines == 2
MaxFrames == 2
MaxInputs == 2
MaxCrash == 2

\* Two concurrent callers.
Tasks == {1, 2}
EngineIds == 1..MaxEngines

\* ------------------------------------------------------- absent values
NoTask == 0
NoEngine == 0
NoTime == "none"
NoPath == "none"
NoHash == "none"
NoMsg == "none"

\* ------------------------------------------------------- the file system
\* Paths a caller can pass.  Exists, Suffix and Content are what the
\* filesystem answers for them.
Paths == {"missing.gb", "notes.txt", "a.gb", "b.GBC"}

Exists(p) == p # "missing.gb"

Suffix(p) ==
    CASE p = "notes.txt" -> ".txt"
      [] p = "b.GBC" -> ".GBC"
      [] OTHER -> ".gb"

Lower(sfx) == IF sfx = ".GBC" THEN ".gbc" ELSE sfx

Content(p) ==
    CASE p = "a.gb" -> "bytesA"
      [] p = "b.GBC" -> "bytesB"
      [] OTHER -> "text"

\* sha256 hex digest of a content, as <<first 16 characters, the rest>>.
Sha256Hex(c) ==
    CASE c = "bytesA" -> <<"h1", "r1">>
      [] c = "bytesB" -> <<"h2", "r2">>
      [] OTHER -> <<"h3", "r3">>

calculate_rom_hash(p) == Sha256Hex(Content(p))[1]

\* ------------------------------------------------------------- variables
VARIABLES
    session,    \* the fields of the GameSession object
    engines,    \* the PyBoy instances: those live, and the last one constructed
    lock,       \* GameSession._lock: the task holding it, or NoTask
    pc,         \* per task: where it is suspended
    call,       \* per task: the tool or session call it is executing
    held,       \* per task: the PyBoy instance its tool body holds (local pyboy)
    result,     \* what the call completed by the last step returned or raised
    last_use,   \* the engine use a tool body made in the last step
    stop_call   \* how the PyBoy stop() call of the last step ended

vars == <<session, engines, lock, pc, call, held, result, last_use, stop_call>>

\* Timestamps are kept by their age: a value time.time() returned since the
\* clock last advanced is "now", an earlier one is "past".
TimeNow == "now"

Age(ts) == IF ts = "now" THEN "past" ELSE ts

\* --------------------------------------------------------- PyBoyEmulator
NoEmulator ==
    [object |-> FALSE, pyboy |-> NoEngine, current_rom_path |-> NoPath,
     is_running |-> FALSE]

\* PyBoyEmulator.__init__: a handle object with no instance.
PyBoyEmulator ==
    [object |-> TRUE, pyboy |-> NoEngine, current_rom_path |-> NoPath,
     is_running |-> FALSE]

is_ready(e) == e.is_running /\ e.pyboy # NoEngine

\* Mutant of EmulatorStart: starts whatever the flag says.
EmulatorStartUnguarded(e) ==
    [e |-> [e EXCEPT !.is_running = TRUE], exc |-> "none"]

\* PyBoyEmulator.start.
EmulatorStart(e) ==
    IF e.is_running
    THEN [e |-> e, exc |-> "EmulatorStateError"]
    ELSE [e |-> [e EXCEPT !.is_running = TRUE], exc |-> "none"]

\* PyBoyEmulator.get_pyboy_instance.
GetPyboyInstance(e) ==
    IF ~e.is_running \/ e.pyboy = NoEngine
    THEN [pyboy |-> NoEngine, exc |-> "EmulatorStateError"]
    ELSE [pyboy |-> e.pyboy, exc |-> "none"]

\* The instance a constructor call returns: the next one, in cyclic order
\* after the last one constructed, that is not live.
EngineDist(eng, i) == (i - eng.last - 1) % MaxEngines

HasFreeEngine(eng) == \E i \in EngineIds : i \notin eng.live

NewEngine(eng) ==
    CHOOSE i \in EngineIds \ eng.live :
        \A j \in EngineIds \ eng.live : EngineDist(eng, i) <= EngineDist(eng, j)

\* Mutant of EmulatorStop: without the finally clause, a stop call that
\* raises leaves the instance in the handle.
EmulatorStopNoFinally(e, eng, stopOk) ==
    [e   |-> [e EXCEPT !.pyboy = IF stopOk THEN NoEngine ELSE @,
                       !.current_rom_path = NoPath,
                       !.is_running = FALSE],
     eng |-> IF e.pyboy # NoEngine
             THEN [eng EXCEPT !.live = @ \ {e.pyboy}]
             ELSE eng,
     stop_call |-> IF e.pyboy = NoEngine THEN "none"
                   ELSE IF stopOk THEN "returned" ELSE "raised"]

\* PyBoyEmulator.stop: the underlying stop call may raise (stopOk = FALSE);
\* the failure is swallowed and the instance is dropped all the same, so
\* the instance counts as stopped once stop() has been called on it.
EmulatorStop(e, eng, stopOk) ==
    [e   |-> [e EXCEPT !.pyboy = NoEngine, !.current_rom_path = NoPath,
                       !.is_running = FALSE],
     eng |-> IF e.pyboy # NoEngine
             THEN [eng EXCEPT !.live = @ \ {e.pyboy}]
             ELSE eng,
     stop_call |-> IF e.pyboy = NoEngine THEN "none"
                   ELSE IF stopOk THEN "returned" ELSE "raised"]

\* Mutant of EmulatorLoadRom: the instance held before is dropped without
\* being stopped.
EmulatorLoadRomNoStop(e, eng, p, ctor, stopOk) ==
    IF ~Exists(p)
    THEN [e |-> e, eng |-> eng, stop_call |-> "none",
          exc |-> "ROMError", msg |-> "not_found"]
    ELSE IF Lower(Suffix(p)) \notin {".gb", ".gbc"}
    THEN [e |-> e, eng |-> eng, stop_call |-> "none",
          exc |-> "ROMError", msg |-> "bad_extension"]
    ELSE LET cleared == [e EXCEPT !.pyboy = NoEngine,
                                  !.current_rom_path = NoPath,
                                  !.is_running = FALSE]
         IN CASE ctor = "ok" /\ HasFreeEngine(eng) ->
                   LET i == NewEngine(eng)
                   IN [e   |-> [e EXCEPT !.pyboy = i,
                                         !.current_rom_path = p,
                                         !.is_running = TRUE],
                       eng |-> [live |-> eng.live \cup {i}, last |-> i],
                       stop_call |-> "none",
                       exc |-> "none", msg |-> NoMsg]
              [] ctor = "invalid rom" ->
                   [e |-> cleared, eng |-> eng, stop_call |-> "none",
                    exc |-> "ROMError", msg |-> "corrupt"]
              [] ctor = "permission" ->
                   [e |-> cleared, eng |-> eng, stop_call |-> "none",
                    exc |-> "ROMError", msg |-> "access"]
              [] OTHER ->
                   [e |-> cleared, eng |-> eng, stop_call |-> "none",
                    exc |-> "EmulatorStateError", msg |-> "init_failed"]

\* Mutant of EmulatorLoadRom: a constructor failure that is neither of the
\* two recognised kinds escapes as the exception the constructor raised.
EmulatorLoadRomRawException(e, eng, p, ctor, stopOk) ==
    IF ~Exists(p)
    THEN [e |-> e, eng |-> eng, stop_call |-> "none",
          exc |-> "ROMError", msg |-> "not_found"]
    ELSE IF Lower(Suffix(p)) \notin {".gb", ".gbc"}
    THEN [e |-> e, eng |-> eng, stop_call |-> "none",
          exc |-> "ROMError", msg |-> "bad_extension"]
    ELSE LET st == IF e.pyboy # NoEngine
                   THEN EmulatorStop(e, eng, stopOk)
                   ELSE [e |-> e, eng |-> eng, stop_call |-> "none"]
             cleared == [st.e EXCEPT !.pyboy = NoEngine,
                                     !.current_rom_path = NoPath,
                                     !.is_running = FALSE]
         IN CASE ctor = "ok" ->
                   LET i == NewEngine(st.eng)
                   IN [e   |-> [st.e EXCEPT !.pyboy = i,
                                            !.current_rom_path = p,
                                            !.is_running = TRUE],
                       eng |-> [live |-> st.eng.live \cup {i}, last |-> i],
                       stop_call |-> st.stop_call,
                       exc |-> "none", msg |-> NoMsg]
              [] ctor = "invalid rom" ->
                   [e |-> cleared, eng |-> st.eng, stop_call |-> st.stop_call,
                    exc |-> "ROMError", msg |-> "corrupt"]
              [] ctor = "permission" ->
                   [e |-> cleared, eng |-> st.eng, stop_call |-> st.stop_call,
                    exc |-> "ROMError", msg |-> "access"]
              [] OTHER ->
                   [e |-> cleared, eng |-> st.eng, stop_call |-> st.stop_call,
                    exc |-> "RuntimeError", msg |-> "init_failed"]

\* Mutant of EmulatorLoadRom: a successful load does not set the running
\* flag.
EmulatorLoadRomNoFlag(e, eng, p, ctor, stopOk) ==
    IF ~Exists(p)
    THEN [e |-> e, eng |-> eng, stop_call |-> "none",
          exc |-> "ROMError", msg |-> "not_found"]
    ELSE IF Lower(Suffix(p)) \notin {".gb", ".gbc"}
    THEN [e |-> e, eng |-> eng, stop_call |-> "none",
          exc |-> "ROMError", msg |-> "bad_extension"]
    ELSE LET st == IF e.pyboy # NoEngine
                   THEN EmulatorStop(e, eng, stopOk)
                   ELSE [e |-> e, eng |-> eng, stop_call |-> "none"]
             cleared == [st.e EXCEPT !.pyboy = NoEngine,
                                     !.current_rom_path = NoPath,
                                     !.is_running = FALSE]
         IN CASE ctor = "ok" ->
                   LET i == NewEngine(st.eng)
                   IN [e   |-> [st.e EXCEPT !.pyboy = i,
                                            !.current_rom_path = p],
                       eng |-> [live |-> st.eng.live \cup {i}, last |-> i],
                       stop_call |-> st.stop_call,
                       exc |-> "none", msg |-> NoMsg]
              [] ctor = "invalid rom" ->
                   [e |-> cleared, eng |-> st.eng, stop_call |-> st.stop_call,
                    exc |-> "ROMError", msg |-> "corrupt"]
              [] ctor = "permission" ->
                   [e |-> cleared, eng |-> st.eng, stop_call |-> st.stop_call,
                    exc |-> "ROMError", msg |-> "access"]
              [] OTHER ->
                   [e |-> cleared, eng |-> st.eng, stop_call |-> st.stop_call,
                    exc |-> "EmulatorStateError", msg |-> "init_failed"]

\* PyBoyEmulator.load_rom.  ctor is the outcome of the PyBoy constructor:
\* "ok", or the class of its exception message.
EmulatorLoadRom(e, eng, p, ctor, stopOk) ==
    IF ~Exists(p)
    THEN [e |-> e, eng |-> eng, stop_call |-> "none",
          exc |-> "ROMError", msg |-> "not_found"]
    ELSE IF Lower(Suffix(p)) \notin {".gb", ".gbc"}
    THEN [e |-> e, eng |-> eng, stop_call |-> "none",
          exc |-> "ROMError", msg |-> "bad_extension"]
    ELSE LET st == IF e.pyboy # NoEngine
                   THEN EmulatorStop(e, eng, stopOk)
                   ELSE [e |-> e, eng |-> eng, stop_call |-> "none"]
             cleared == [st.e EXCEPT !.pyboy = NoEngine,
                                     !.current_rom_path = NoPath,
                                     !.is_running = FALSE]
         IN CASE ctor = "ok" ->
                   LET i == NewEngine(st.eng)
                   IN [e   |-> [st.e EXCEPT !.pyboy = i,
                                            !.current_rom_path = p,
                                            !.is_running = TRUE],
                       eng |-> [live |-> st.eng.live \cup {i}, last |-> i],
                       stop_call |-> st.stop_call,
                       exc |-> "none", msg |-> NoMsg]
              [] ctor = "invalid rom" ->
                   [e |-> cleared, eng |-> st.eng, stop_call |-> st.stop_call,
                    exc |-> "ROMError", msg |-> "corrupt"]
              [] ctor = "permission" ->
                   [e |-> cleared, eng |-> st.eng, stop_call |-> st.stop_call,
                    exc |-> "ROMError", msg |-> "access"]
              [] OTHER ->
                   [e |-> cleared, eng |-> st.eng, stop_call |-> st.stop_call,
                    exc |-> "EmulatorStateError", msg |-> "init_failed"]

CtorOutcomes == {"ok", "invalid rom", "permission", "other"}

\* ----------------------------------------------------------- GameSession
GameSessionInit ==
    [emulator |-> NoEmulator,
     state |-> "idle",
     current_rom_path |-> NoPath,
     current_rom_hash |-> NoHash,
     session_start_time |-> NoTime,
     last_activity_time |-> NoTime,
     error_message |-> NoMsg,
     total_frames |-> 0,
     total_inputs |-> 0,
     crash_count |-> 0]

\* Mutant of LoadRomBegin: the message of the last failure is kept.
LoadRomBeginKeepsError(s) == [s EXCEPT !.state = "loading"]

\* Mutant of LoadRomBegin: the remembered path is dropped when a load
\* starts.
LoadRomBeginClearsPath(s) ==
    [s EXCEPT !.error_message = NoMsg, !.state = "loading",
              !.current_rom_path = NoPath]

\* load_rom, lines 96-100: under the lock, before the try block.
LoadRomBegin(s) == [s EXCEPT !.error_message = NoMsg, !.state = "loading"]

\* Mutant of LoadRomError: a failed load forgets the program loaded before.
LoadRomErrorClearsRom(s, eng, sc, msg) ==
    [s |-> [s EXCEPT !.state = "error", !.error_message = msg,
                     !.current_rom_path = NoPath,
                     !.current_rom_hash = NoHash],
     eng |-> eng, stop_call |-> sc, status |-> "SessionError", reason |-> msg]

\* Mutant of LoadRomError: the known failures are counted as crashes.
LoadRomErrorAsCrash(s, eng, sc, msg) ==
    [s |-> [s EXCEPT !.state = "crashed", !.error_message = msg,
                     !.crash_count = @ + 1],
     eng |-> eng, stop_call |-> sc, status |-> "SessionError", reason |-> msg]

\* load_rom, lines 143-147: except (ROMError, EmulatorStateError).
LoadRomError(s, eng, sc, msg) ==
    [s |-> [s EXCEPT !.state = "error", !.error_message = msg],
     eng |-> eng, stop_call |-> sc, status |-> "SessionError", reason |-> msg]

\* Mutant of LoadRomCrash: the unexpected exception is re-raised as it is.
LoadRomCrashReraises(s, eng) ==
    [s |-> [s EXCEPT !.state = "crashed", !.error_message = "unexpected",
                     !.crash_count = @ + 1],
     eng |-> eng, stop_call |-> "none",
     status |-> "OSError", reason |-> "crashed"]

\* Mutant of LoadRomCrash: the crash is not counted.
LoadRomCrashUncounted(s, eng) ==
    [s |-> [s EXCEPT !.state = "crashed", !.error_message = "unexpected"],
     eng |-> eng, stop_call |-> "none",
     status |-> "SessionError", reason |-> "crashed"]

\* load_rom, lines 148-155: except Exception.
LoadRomCrash(s, eng) ==
    [s |-> [s EXCEPT !.state = "crashed", !.error_message = "unexpected",
                     !.crash_count = @ + 1],
     eng |-> eng, stop_call |-> "none",
     status |-> "SessionError", reason |-> "crashed"]

\* Mutant of LoadRomSuccess: the hash of the new content is not recorded.
LoadRomSuccessKeepsHash(s, p, rom_hash, tnow) ==
    [s EXCEPT !.current_rom_path = p,
              !.state = "running",
              !.session_start_time = tnow,
              !.last_activity_time = tnow,
              !.total_frames = 0,
              !.total_inputs = 0]

\* Mutant of LoadRomSuccess: the input counter survives a reload.
LoadRomSuccessKeepsInputs(s, p, rom_hash, tnow) ==
    [s EXCEPT !.current_rom_path = p,
              !.current_rom_hash = rom_hash,
              !.state = "running",
              !.session_start_time = tnow,
              !.last_activity_time = tnow,
              !.total_frames = 0]

\* load_rom, lines 124-131: the session fields after a successful load.
LoadRomSuccess(s, p, rom_hash, tnow) ==
    [s EXCEPT !.current_rom_path = p,
              !.current_rom_hash = rom_hash,
              !.state = "running",
              !.session_start_time = tnow,
              !.last_activity_time = tnow,
              !.total_frames = 0,
              !.total_inputs = 0]

\* Mutant of HandleChoice: a handle is constructed only when the session
\* holds none.
HandleChoiceOnlyWhenNone(s, p, readOk) ==
    IF ~Exists(p) \/ ~readOk THEN "none"
    ELSE IF ~s.emulator.object THEN "new"
    ELSE "kept"

\* load_rom, lines 113-119: whether the load goes to a newly constructed
\* handle or to the one the session holds; "none" when the load fails
\* before that point.
HandleChoice(s, p, readOk) ==
    IF ~Exists(p) \/ ~readOk THEN "none"
    ELSE IF ~s.emulator.object \/ calculate_rom_hash(p) # s.current_rom_hash
    THEN "new"
    ELSE "kept"

\* Mutant of LoadRomFinish: a handle that is replaced is not stopped first.
LoadRomFinishDropsHandle(s, eng, p, readOk, ctor, stopOk, tnow) ==
    IF ~Exists(p) THEN LoadRomError(s, eng, "none", "not_found")
    ELSE IF ~readOk THEN LoadRomCrash(s, eng)
    ELSE LET rom_hash == calculate_rom_hash(p)
             fresh == HandleChoice(s, p, readOk) = "new"
             st == [e |-> s.emulator, eng |-> eng, stop_call |-> "none"]
             e0 == IF fresh THEN PyBoyEmulator
                   ELSE s.emulator
             ld == EmulatorLoadRom(e0, st.eng, p, ctor, stopOk)
             s1 == [s EXCEPT !.emulator = ld.e]
             sc == IF st.stop_call # "none" THEN st.stop_call ELSE ld.stop_call
         IN IF ld.exc \in {"ROMError", "EmulatorStateError"}
            THEN LoadRomError(s1, ld.eng, sc, ld.msg)
            ELSE IF ld.exc # "none"
            THEN [LoadRomCrash(s1, ld.eng) EXCEPT !.s.error_message = ld.msg,
                                                  !.stop_call = sc,
                                                  !.reason = ld.msg]
            ELSE [s |-> LoadRomSuccess(s1, p, rom_hash, tnow),
                  eng |-> ld.eng, stop_call |-> sc,
                  status |-> "ok", reason |-> NoMsg, rom_hash |-> rom_hash]

\* load_rom, lines 102-141: the try block.  readOk: reading the file for
\* the hash succeeds (otherwise open/read raises an OSError); ctor and stopOk
\* as in EmulatorLoadRom and EmulatorStop.
LoadRomFinish(s, eng, p, readOk, ctor, stopOk, tnow) ==
    IF ~Exists(p) THEN LoadRomError(s, eng, "none", "not_found")
    ELSE IF ~readOk THEN LoadRomCrash(s, eng)
    ELSE LET rom_hash == calculate_rom_hash(p)
             fresh == HandleChoice(s, p, readOk) = "new"
             st == IF fresh /\ s.emulator.object
                   THEN EmulatorStop(s.emulator, eng, stopOk)
                   ELSE [e |-> s.emulator, eng |-> eng, stop_call |-> "none"]
             e0 == IF fresh THEN PyBoyEmulator
                   ELSE s.emulator
             ld == EmulatorLoadRom(e0, st.eng, p, ctor, stopOk)
             s1 == [s EXCEPT !.emulator = ld.e]
             sc == IF st.stop_call # "none" THEN st.stop_call ELSE ld.stop_call
         IN IF ld.exc \in {"ROMError", "EmulatorStateError"}
            THEN LoadRomError(s1, ld.eng, sc, ld.msg)
            ELSE IF ld.exc # "none"
            THEN [LoadRomCrash(s1, ld.eng) EXCEPT !.s.error_message = ld.msg,
                                                  !.stop_call = sc,
                                                  !.reason = ld.msg]
            ELSE [s |-> LoadRomSuccess(s1, p, rom_hash, tnow),
                  eng |-> ld.eng, stop_call |-> sc,
                  status |-> "ok", reason |-> NoMsg, rom_hash |-> rom_hash]

\* Mutant of PauseBody: pauses whatever the state is.
PauseBodyUnguarded(s) == [s EXCEPT !.state = "paused"]

\* pause, lines 226-227.
PauseBody(s) == IF s.state = "running" THEN [s EXCEPT !.state = "paused"] ELSE s

\* Mutant of ResumeBody: the state is left as it is.
ResumeBodyNoop(s) == s

\* Mutant of ResumeBody: resumes whatever the state is.
ResumeBodyUnguarded(s) == [s EXCEPT !.state = "running"]

\* resume, lines 233-234.
ResumeBody(s) == IF s.state = "paused" THEN [s EXCEPT !.state = "running"] ELSE s

\* Mutant of StopBody: a failing engine stop escapes after the finally
\* clause, before the session fields are cleared.
StopBodyNoExcept(s, eng, stopOk) ==
    LET st == IF s.emulator.object
              THEN EmulatorStop(s.emulator, eng, stopOk)
              ELSE [e |-> s.emulator, eng |-> eng, stop_call |-> "none"]
    IN IF st.stop_call = "raised"
       THEN [s |-> [s EXCEPT !.emulator = NoEmulator],
             eng |-> st.eng, stop_call |-> st.stop_call, raised |-> TRUE]
       ELSE [s |-> [s EXCEPT !.emulator = NoEmulator,
                             !.state = "idle",
                             !.current_rom_path = NoPath,
                             !.current_rom_hash = NoHash,
                             !.session_start_time = NoTime,
                             !.error_message = NoMsg],
             eng |-> st.eng, stop_call |-> st.stop_call, raised |-> FALSE]

\* Mutant of StopBody: the handle is stopped and dropped but the session
\* fields are left as they are.
StopBodyKeepsState(s, eng, stopOk) ==
    LET st == IF s.emulator.object
              THEN EmulatorStop(s.emulator, eng, stopOk)
              ELSE [e |-> s.emulator, eng |-> eng, stop_call |-> "none"]
    IN [s |-> [s EXCEPT !.emulator = NoEmulator],
        eng |-> st.eng, stop_call |-> st.stop_call, raised |-> FALSE]

\* Mutant of StopBody: stop starts the session over, crash counter
\* included.
StopBodyResetsCrashCount(s, eng, stopOk) ==
    LET st == IF s.emulator.object
              THEN EmulatorStop(s.emulator, eng, stopOk)
              ELSE [e |-> s.emulator, eng |-> eng, stop_call |-> "none"]
    IN [s |-> [s EXCEPT !.emulator = NoEmulator,
                        !.state = "idle",
                        !.current_rom_path = NoPath,
                        !.current_rom_hash = NoHash,
                        !.session_start_time = NoTime,
                        !.error_message = NoMsg,
                        !.crash_count = 0],
        eng |-> st.eng, stop_call |-> st.stop_call, raised |-> FALSE]

\* Mutant of StopBody: like start(), stop refuses a session that is
\* already idle.
StopBodyRefusesIdle(s, eng, stopOk) ==
    LET st == IF s.emulator.object
              THEN EmulatorStop(s.emulator, eng, stopOk)
              ELSE [e |-> s.emulator, eng |-> eng, stop_call |-> "none"]
    IN IF s.state = "idle"
       THEN [s |-> s, eng |-> eng, stop_call |-> "none", raised |-> TRUE]
       ELSE [s |-> [s EXCEPT !.emulator = NoEmulator,
                             !.state = "idle",
                             !.current_rom_path = NoPath,
                             !.current_rom_hash = NoHash,
                             !.session_start_time = NoTime,
                             !.error_message = NoMsg],
             eng |-> st.eng, stop_call |-> st.stop_call, raised |-> FALSE]

\* Mutant of StopBody: the error message survives the stop.
StopBodyKeepsError(s, eng, stopOk) ==
    LET st == IF s.emulator.object
              THEN EmulatorStop(s.emulator, eng, stopOk)
              ELSE [e |-> s.emulator, eng |-> eng, stop_call |-> "none"]
    IN [s |-> [s EXCEPT !.emulator = NoEmulator,
                        !.state = "idle",
                        !.current_rom_path = NoPath,
                        !.current_rom_hash = NoHash,
                        !.session_start_time = NoTime],
        eng |-> st.eng, stop_call |-> st.stop_call, raised |-> FALSE]

\* stop, lines 240-252.  raised: an exception leaves stop().
StopBody(s, eng, stopOk) ==
    LET st == IF s.emulator.object
              THEN EmulatorStop(s.emulator, eng, stopOk)
              ELSE [e |-> s.emulator, eng |-> eng, stop_call |-> "none"]
    IN [s |-> [s EXCEPT !.emulator = NoEmulator,
                        !.state = "idle",
                        !.current_rom_path = NoPath,
                        !.current_rom_hash = NoHash,
                        !.session_start_time = NoTime,
                        !.error_message = NoMsg],
        eng |-> st.eng, stop_call |-> st.stop_call, raised |-> FALSE]

\* ---------------------------------------------------------- SessionManager
\* Mutant of ResetBody: the session is replaced without being stopped.
ResetBodyNoStop(s, eng, stopOk) ==
    [s |-> GameSessionInit, eng |-> eng, stop_call |-> "none",
     raised |-> FALSE]

\* SessionManager.reset: stop() on the session, then a new GameSession in
\* its place; an exception leaving stop() would leave the old session.
ResetBody(s, eng, stopOk) ==
    LET r == StopBody(s, eng, stopOk)
    IN [s |-> IF r.raised THEN r.s ELSE GameSessionInit,
        eng |-> r.eng, stop_call |-> r.stop_call, raised |-> r.raised]

\* Mutant of record_frame_advance: the default of one frame is recorded
\* whatever the argument.
record_frame_advance_default(s, frames, tnow) ==
    [s EXCEPT !.total_frames = @ + 1, !.last_activity_time = tnow]

\* record_frame_advance and record_input.
record_frame_advance(s, frames, tnow) ==
    [s EXCEPT !.total_frames = @ + frames, !.last_activity_time = tnow]

record_input(s, tnow) ==
    [s EXCEPT !.total_inputs = @ + 1, !.last_activity_time = tnow]

\* Mutant of GetInfo: reading the session counts as activity.
GetInfoRecordsActivity(s, tnow) ==
    [s |-> [s EXCEPT !.last_activity_time = tnow],
     info |-> [state |-> s.state,
               has_rom |-> s.current_rom_path # NoPath,
               rom_hash |-> IF s.current_rom_path # NoPath
                            THEN s.current_rom_hash ELSE NoHash,
               error_message |-> s.error_message,
               crash_count |-> s.crash_count,
               has_metrics |-> s.session_start_time # NoTime,
               total_frames |-> IF s.session_start_time # NoTime
                                THEN s.total_frames ELSE 0,
               total_inputs |-> IF s.session_start_time # NoTime
                                THEN s.total_inputs ELSE 0]]

\* get_info: the session after the call and the dict it returns.  The ROM
\* fields are present only with a path, the metrics only with a session
\* start time (has_rom, has_metrics).
GetInfo(s, tnow) ==
    [s |-> s,
     info |-> [state |-> s.state,
               has_rom |-> s.current_rom_path # NoPath,
               rom_hash |-> IF s.current_rom_path # NoPath
                            THEN s.current_rom_hash ELSE NoHash,
               error_message |-> s.error_message,
               crash_count |-> s.crash_count,
               has_metrics |-> s.session_start_time # NoTime,
               total_frames |-> IF s.session_start_time # NoTime
                                THEN s.total_frames ELSE 0,
               total_inputs |-> IF s.session_start_time # NoTime
                                THEN s.total_inputs ELSE 0]]

NoInfo ==
    [state |-> "none", has_rom |-> FALSE, rom_hash |-> NoHash,
     error_message |-> NoMsg, crash_count |-> 0, has_metrics |-> FALSE,
     total_frames |-> 0, total_inputs |-> 0]

\* ------------------------------------------------------------ results
\* What a call hands to its caller: for an error its kind (status), which
\* message it is (reason) and the session message it quotes (detail); for a
\* return the fields of the returned dict.
NoResult ==
    [op |-> "none", status |-> "none", reason |-> NoMsg, detail |-> NoMsg,
     session_state |-> "none", rom_hash |-> NoHash,
     frames_advanced |-> 0, button |-> "none", info |-> NoInfo,
     handle |-> "none"]

Result(op, status, reason) ==
    [NoResult EXCEPT !.op = op, !.status = status, !.reason = reason]

\* A tool body's use of an engine: the instance, whether it was live and
\* which instance the session's handle held, and the calls made on it, in
\* order (calls) and counted by kind.
NoUse ==
    [pyboy |-> NoEngine, status |-> "none", current |-> NoEngine,
     presses |-> 0, ticks |-> 0, releases |-> 0, calls |-> <<>>]

NoCall == [op |-> "none", path |-> NoPath, button |-> "none", duration |-> 0]

\* press_button, lines 259-265: the loop over range(duration), from frame
\* on, adding to the calls counted in acc.
\* Mutant of PressLoop: the button is released after the loop only when
\* the hold lasted more than one frame.
RECURSIVE PressLoopTapKeepsHeld(_, _, _)
PressLoopTapKeepsHeld(frame, duration, acc) ==
    IF frame >= duration THEN acc
    ELSE PressLoopTapKeepsHeld(frame + 1, duration,
                   [acc EXCEPT !.presses = @ + 1,
                               !.ticks = @ + 1,
                               !.releases = @ + (IF frame = duration - 1
                                                    /\ duration > 1
                                                 THEN 1 ELSE 0),
                               !.calls = @ \o <<"press", "tick">>
                                           \o (IF frame = duration - 1
                                                   /\ duration > 1
                                               THEN <<"release">>
                                               ELSE <<>>)])

RECURSIVE PressLoop(_, _, _)
PressLoop(frame, duration, acc) ==
    IF frame >= duration THEN acc
    ELSE PressLoop(frame + 1, duration,
                   [acc EXCEPT !.presses = @ + 1,
                               !.ticks = @ + 1,
                               !.releases = @ + (IF frame = duration - 1
                                                 THEN 1 ELSE 0),
                               !.calls = @ \o <<"press", "tick">>
                                           \o (IF frame = duration - 1
                                               THEN <<"release">>
                                               ELSE <<>>)])

\* The engine calls of a tool body when none of them raises: the hold loop
\* of press_button, or the framebuffer read of get_screen (line 134).
EngineCalls(c, use) ==
    IF c.op = "press_button" THEN PressLoop(0, c.duration, use)
    ELSE [use EXCEPT !.calls = <<"screen">>]

\* The use in which the call after the first n raised: the exception leaves
\* the loop, so the engine has seen the first n calls and no later one.
Interrupted(use, n) ==
    LET done == SubSeq(use.calls, 1, n)
        Count(k) == Cardinality({i \in 1..Len(done) : done[i] = k})
    IN [use EXCEPT !.calls = done,
                   !.presses = Count("press"),
                   !.ticks = Count("tick"),
                   !.releases = Count("release")]

\* ------------------------------------------------------- tool arguments
Buttons == {"a", "x"}
Durations == {0, 1, 2, 61}

\* str.upper() on the names a caller passes (PressButtons below).
Upper(b) ==
    CASE b = "a" -> "A"
      [] b = "x" -> "X"
      [] b = "b" -> "B"
      [] b = "start" -> "START"
      [] b = "Start" -> "START"
      [] b = "select" -> "SELECT"
      [] b = "up" -> "UP"
      [] b = "down" -> "DOWN"
      [] b = "left" -> "LEFT"
      [] b = "right" -> "RIGHT"
      [] b = "a " -> "A "
      [] OTHER -> b

valid_buttons == {"A", "B", "START", "SELECT", "UP", "DOWN", "LEFT", "RIGHT"}

\* Mutant of ValidatePress: the upper limit is tested with >=.
ValidatePressOffByOne(b, d) ==
    IF Upper(b) \notin valid_buttons THEN "invalid_button"
    ELSE IF d < 1 THEN "duration_too_short"
    ELSE IF d >= 60 THEN "duration_too_long"
    ELSE "none"

\* press_button, lines 239-250: "none" when the arguments are accepted.
ValidatePress(b, d) ==
    IF Upper(b) \notin valid_buttons THEN "invalid_button"
    ELSE IF d < 1 THEN "duration_too_short"
    ELSE IF d > 60 THEN "duration_too_long"
    ELSE "none"

ToolOps == {"press_button", "get_screen"}
EnsureOps == {"ensure_running"} \cup ToolOps

\* What leaves the call: the tools turn every failure into a ValueError.
ErrorKind(op) == IF op \in ToolOps THEN "ValueError" ELSE "SessionError"

\* ------------------------------------------------------------ scheduling
\* Mutant of AwaitPoints: the tool body awaits while it holds the instance.
AwaitPointsInToolBody ==
    {"idle", "resume_wait", "load_rom_wait", "loading",
     "pause_locked", "resume_locked", "stop_locked", "tool_body"}

\* The positions in which a task can be switched out.  "tool_body" is not
\* one: server.py has no await between get_emulator() returning and the end
\* of the tool's use of the engine.
AwaitPoints ==
    {"idle", "resume_wait", "load_rom_wait", "loading",
     "pause_locked", "resume_locked", "stop_locked"}

Scheduled(t) == \A u \in Tasks \ {t} : pc[u] \in AwaitPoints

\* Mutant of LockFree: acquire succeeds on a held lock too.
LockFreeNoCheck(l) == TRUE

\* asyncio.Lock: acquire succeeds only on a lock nobody holds.
LockFree(l) == l = NoTask

\* ------------------------------------------- ensure_running, get_emulator
\* The local state of task t after a step: the session, where the task
\* continues, its call, the instance its tool body holds, and the result it
\* has delivered.
Raise(t, c, s, reason) ==
    [s |-> s, pc |-> "idle", call |-> NoCall, held |-> NoEngine,
     result |-> Result(c.op, ErrorKind(c.op), reason)]

Return(t, c, s) ==
    [s |-> s, pc |-> "idle", call |-> NoCall, held |-> NoEngine,
     result |-> [Result(c.op, "ok", NoMsg) EXCEPT !.session_state = s.state]]

\* PyBoyEmulator.get_pyboy_instance, lines 195-200.
PyboyInstanceAvailable(e) == ~(~e.is_running \/ e.pyboy = NoEngine)

\* What follows a normal return of ensure_running(): nothing for a direct
\* call; otherwise get_emulator, lines 215-221, and for a tool the start of
\* its body (emulator.get_pyboy_instance()).
AfterEnsure(t, c, s, tnow) ==
    IF c.op = "ensure_running" THEN Return(t, c, s)
    ELSE IF ~s.emulator.object \/ ~is_ready(s.emulator)
    THEN Raise(t, c, s, "not_ready")
    ELSE LET s1 == [s EXCEPT !.last_activity_time = tnow]
         IN IF ~PyboyInstanceAvailable(s1.emulator)
            THEN Raise(t, c, s1, "not_running")
            ELSE [s |-> s1, pc |-> "tool_body", call |-> c,
                  held |-> s1.emulator.pyboy, result |-> NoResult]

\* Mutant of EnsureRunning: a session in the error state is recovered like
\* a crashed one.
EnsureRunningRecoversError(t, c, s, tnow) ==
    CASE s.state = "running" -> AfterEnsure(t, c, s, tnow)
      [] s.state = "paused" ->
           [s |-> s, pc |-> "resume_wait", call |-> c, held |-> NoEngine,
            result |-> NoResult]
      [] s.state = "idle" -> Raise(t, c, s, "no_rom_loaded")
      [] s.state = "loading" -> Raise(t, c, s, "still_loading")
      [] OTHER ->
           IF s.current_rom_path # NoPath
           THEN [s |-> s, pc |-> "load_rom_wait",
                 call |-> [c EXCEPT !.path = s.current_rom_path],
                 held |-> NoEngine, result |-> NoResult]
           ELSE Raise(t, c, s, "no_rom_to_recover")

\* Mutant of EnsureRunning: a crashed session retries the load also when it
\* remembers no path.
EnsureRunningRetriesNoPath(t, c, s, tnow) ==
    CASE s.state = "running" -> AfterEnsure(t, c, s, tnow)
      [] s.state = "paused" ->
           [s |-> s, pc |-> "resume_wait", call |-> c, held |-> NoEngine,
            result |-> NoResult]
      [] s.state = "idle" -> Raise(t, c, s, "no_rom_loaded")
      [] s.state = "loading" -> Raise(t, c, s, "still_loading")
      [] s.state = "error" ->
           [Raise(t, c, s, "error_state") EXCEPT
               !.result.detail = s.error_message]
      [] OTHER ->
           [s |-> s, pc |-> "load_rom_wait",
            call |-> [c EXCEPT !.path = s.current_rom_path],
            held |-> NoEngine, result |-> NoResult]

\* ensure_running, lines 164-201, up to its first await.
EnsureRunning(t, c, s, tnow) ==
    CASE s.state = "running" -> AfterEnsure(t, c, s, tnow)
      [] s.state = "paused" ->
           [s |-> s, pc |-> "resume_wait", call |-> c, held |-> NoEngine,
            result |-> NoResult]
      [] s.state = "idle" -> Raise(t, c, s, "no_rom_loaded")
      [] s.state = "loading" -> Raise(t, c, s, "still_loading")
      [] s.state = "error" ->
           [Raise(t, c, s, "error_state") EXCEPT
               !.result.detail = s.error_message]
      [] OTHER ->
           IF s.current_rom_path # NoPath
           THEN [s |-> s, pc |-> "load_rom_wait",
                 call |-> [c EXCEPT !.path = s.current_rom_path],
                 held |-> NoEngine, result |-> NoResult]
           ELSE Raise(t, c, s, "no_rom_to_recover")

\* load_rom called directly, lines 135-155: it returns its dict, or the
\* exception its handler raised leaves it.
LoadRomResult(t, c, r) ==
    IF r.status = "ok"
    THEN [Return(t, c, r.s) EXCEPT !.result.rom_hash = r.rom_hash]
    ELSE [Raise(t, c, r.s, r.reason) EXCEPT !.result.status = r.status]

\* Mutant of Recover: a failed retry is followed by another one.
RecoverRetries(t, c, r, tnow) ==
    IF r.status = "ok" THEN AfterEnsure(t, c, r.s, tnow)
    ELSE [s |-> r.s, pc |-> "load_rom_wait", call |-> c, held |-> NoEngine,
          result |-> NoResult]

\* Mutant of Recover: the error of the retried load leaves ensure_running
\* as it is.
RecoverUnwrapped(t, c, r, tnow) ==
    IF r.status = "ok" THEN AfterEnsure(t, c, r.s, tnow)
    ELSE Raise(t, c, r.s, r.reason)

\* ensure_running, lines 189-196: the retried load_rom has ended with r.
Recover(t, c, r, tnow) ==
    IF r.status = "ok" THEN AfterEnsure(t, c, r.s, tnow)
    ELSE Raise(t, c, r.s, "recover_failed")

\* The step of task t ends in local state o with the engines eng.
Step(t, o, eng) ==
    /\ session' = o.s
    /\ engines' = eng
    /\ pc' = [pc EXCEPT ![t] = o.pc]
    /\ call' = [call EXCEPT ![t] = o.call]
    /\ held' = [held EXCEPT ![t] = o.held]
    /\ result' = o.result

Init ==
    /\ session = GameSessionInit
    /\ engines = [live |-> {}, last |-> NoEngine]
    /\ lock = NoTask
    /\ pc = [t \in Tasks |-> "idle"]
    /\ call = [t \in Tasks |-> NoCall]
    /\ held = [t \in Tasks |-> NoEngine]
    /\ result = NoResult
    /\ last_use = NoUse
    /\ stop_call = "none"

\* --------------------------------------------------------------- actions
\* A step that completes no call, uses no engine and stops none.
Quiet == result' = NoResult /\ last_use' = NoUse /\ stop_call' = "none"

\* A caller invokes load_rom(p), acquires the lock and runs lines 93-100.
load_rom_enter(t, p) ==
    /\ pc[t] = "idle" /\ Scheduled(t) /\ LockFree(lock)
    /\ lock' = t
    /\ session' = LoadRomBegin(session)
    /\ pc' = [pc EXCEPT ![t] = "loading"]
    /\ call' = [call EXCEPT ![t] = [NoCall EXCEPT !.op = "load_rom", !.path = p]]
    /\ Quiet
    /\ UNCHANGED <<engines, held>>

pause_enter(t) ==
    /\ pc[t] = "idle" /\ Scheduled(t) /\ LockFree(lock)
    /\ lock' = t
    /\ pc' = [pc EXCEPT ![t] = "pause_locked"]
    /\ call' = [call EXCEPT ![t] = [NoCall EXCEPT !.op = "pause"]]
    /\ Quiet
    /\ UNCHANGED <<session, engines, held>>

resume_enter(t) ==
    /\ pc[t] = "idle" /\ Scheduled(t) /\ LockFree(lock)
    /\ lock' = t
    /\ pc' = [pc EXCEPT ![t] = "resume_locked"]
    /\ call' = [call EXCEPT ![t] = [NoCall EXCEPT !.op = "resume"]]
    /\ Quiet
    /\ UNCHANGED <<session, engines, held>>

stop_enter(t) ==
    /\ pc[t] = "idle" /\ Scheduled(t) /\ LockFree(lock)
    /\ lock' = t
    /\ pc' = [pc EXCEPT ![t] = "stop_locked"]
    /\ call' = [call EXCEPT ![t] = [NoCall EXCEPT !.op = "stop"]]
    /\ Quiet
    /\ UNCHANGED <<session, engines, held>>

\* ensure_running's resume() or load_rom() acquires the lock; load_rom runs
\* lines 93-100.
lock_acquire(t) ==
    /\ pc[t] \in {"resume_wait", "load_rom_wait"} /\ Scheduled(t) /\ LockFree(lock)
    /\ lock' = t
    /\ session' = IF pc[t] = "load_rom_wait" THEN LoadRomBegin(session)
                  ELSE session
    /\ pc' = [pc EXCEPT ![t] = IF pc[t] = "resume_wait" THEN "resume_locked"
                                ELSE "loading"]
    /\ Quiet
    /\ UNCHANGED <<engines, call, held>>

\* The rest of load_rom; the lock is released on every exit.  Called from
\* ensure_running, a failure is re-raised as "failed to recover" and a
\* success returns into ensure_running's caller.
load_rom_finish(t) ==
    /\ pc[t] = "loading" /\ Scheduled(t)
    /\ HasFreeEngine(engines)
    /\ \E readOk \in BOOLEAN, ctor \in CtorOutcomes, stopOk \in BOOLEAN :
         /\ ~readOk => session.crash_count < MaxCrash
         /\ \E r \in {LoadRomFinish(session, engines, call[t].path, readOk,
                                     ctor, stopOk, TimeNow)} :
            \E o \in {IF call[t].op = "load_rom"
                      THEN LoadRomResult(t, call[t], r)
                      ELSE Recover(t, call[t], r, TimeNow)} :
               /\ Step(t,
                       IF o.result.op = "none" THEN o
                       ELSE [o EXCEPT !.result.handle =
                                HandleChoice(session, call[t].path, readOk)],
                       r.eng)
               /\ stop_call' = r.stop_call
    /\ lock' = NoTask
    /\ last_use' = NoUse

\* Mutant of pause_body: pause() returns without releasing the lock.
pause_body_keeps_lock(t) ==
    /\ pc[t] = "pause_locked" /\ Scheduled(t)
    /\ Step(t, Return(t, call[t], PauseBody(session)), engines)
    /\ lock' = lock
    /\ last_use' = NoUse /\ stop_call' = "none"

pause_body(t) ==
    /\ pc[t] = "pause_locked" /\ Scheduled(t)
    /\ Step(t, Return(t, call[t], PauseBody(session)), engines)
    /\ lock' = NoTask
    /\ last_use' = NoUse /\ stop_call' = "none"

resume_body(t) ==
    /\ pc[t] = "resume_locked" /\ Scheduled(t)
    /\ LET c == call[t]
           s == ResumeBody(session)
       IN Step(t, IF c.op = "resume" THEN Return(t, c, s)
                  ELSE AfterEnsure(t, c, s, TimeNow), engines)
    /\ lock' = NoTask
    /\ last_use' = NoUse /\ stop_call' = "none"

stop_body(t) ==
    /\ pc[t] = "stop_locked" /\ Scheduled(t)
    /\ \E stopOk \in BOOLEAN :
         LET r == StopBody(session, engines, stopOk)
         IN /\ Step(t, IF r.raised
                       THEN Raise(t, call[t], r.s, "stop_failed")
                       ELSE Return(t, call[t], r.s), r.eng)
            /\ stop_call' = r.stop_call
    /\ lock' = NoTask
    /\ last_use' = NoUse

\* A caller invokes ensure_running() or a tool that starts with
\* get_emulator(); press_button validates its arguments first.
ensure_running(t, op, b, d) ==
    /\ pc[t] = "idle" /\ Scheduled(t)
    /\ LET c == [NoCall EXCEPT !.op = op, !.button = b, !.duration = d]
       IN IF op = "press_button" /\ ValidatePress(b, d) # "none"
          THEN Step(t, Raise(t, c, session, ValidatePress(b, d)), engines)
          ELSE Step(t, EnsureRunning(t, c, session, TimeNow), engines)
    /\ last_use' = NoUse /\ stop_call' = "none"
    /\ UNCHANGED lock

\* The tool's use of the engine it obtained: press_button, lines 258-279
\* (hold, tick, release, then the two metric recorders) or get_screen, lines
\* 134-163 (read the framebuffer).  Any engine call may raise: n is the
\* number of calls that returned, and the use is complete (useOk) when every
\* call did.  An exception goes to the except clauses (lines 281-288), past
\* the recorders.
tool_body(t) ==
    /\ pc[t] = "tool_body" /\ Scheduled(t)
    /\ \E full \in {EngineCalls(call[t],
                                [NoUse EXCEPT
                                   !.pyboy = held[t],
                                   !.status = IF held[t] \in engines.live
                                              THEN "live" ELSE "stopped",
                                   !.current = session.emulator.pyboy])} :
       \E n \in 0..Len(full.calls) :
         LET c == call[t]
             press == c.op = "press_button"
             useOk == n = Len(full.calls)
         IN /\ (useOk /\ press) =>
                  /\ session.total_frames + c.duration <= MaxFrames
                  /\ session.total_inputs < MaxInputs
            /\ last_use' = IF useOk THEN full ELSE Interrupted(full, n)
            /\ IF ~useOk THEN Step(t, Raise(t, c, session, "engine_call_failed"),
                                   engines)
               ELSE IF press
               THEN LET s1 == record_input(
                                 record_frame_advance(session, c.duration, TimeNow),
                                 TimeNow)
                    IN Step(t, [Return(t, c, s1) EXCEPT
                                  !.result.frames_advanced = c.duration,
                                  !.result.button = Upper(c.button)], engines)
               ELSE Step(t, Return(t, c, session), engines)
    /\ stop_call' = "none"
    /\ UNCHANGED lock

\* The get_session_info tool: get_info() reads the session fields without
\* the lock and without an await, whoever holds the lock.
get_session_info(t) ==
    /\ pc[t] = "idle" /\ Scheduled(t)
    /\ LET r == GetInfo(session, TimeNow)
       IN /\ session' = r.s
          /\ result' = [Result("get_session_info", "ok", NoMsg) EXCEPT
                           !.info = r.info]
    /\ last_use' = NoUse /\ stop_call' = "none"
    /\ UNCHANGED <<engines, lock, pc, call, held>>

\* time.time() advances: every timestamp taken so far is in the past.
Tick ==
    /\ \A t \in Tasks : pc[t] \in AwaitPoints
    /\ session' = [session EXCEPT !.session_start_time = Age(@),
                                  !.last_activity_time = Age(@)]
    /\ session' # session
    /\ Quiet
    /\ UNCHANGED <<engines, lock, pc, call, held>>

\* The steps of caller t.
TaskNext(t) ==
    \/ \E p \in Paths : load_rom_enter(t, p)
    \/ pause_enter(t)
    \/ resume_enter(t)
    \/ stop_enter(t)
    \/ lock_acquire(t)
    \/ load_rom_finish(t)
    \/ pause_body(t)
    \/ resume_body(t)
    \/ stop_body(t)
    \/ \E b \in Buttons, d \in Durations : ensure_running(t, "press_button", b, d)
    \/ \E op \in EnsureOps \ {"press_button"} : ensure_running(t, op, "none", 0)
    \/ tool_body(t)

Next == (\E t \in Tasks : TaskNext(t)) \/ Tick

\* Any interleaving of the callers.
Spec == Init /\ [][Next]_vars

\* One caller, issuing one call after the other.
SeqNext == TaskNext(1) \/ Tick

SeqSpec == Init /\ [][SeqNext]_vars

\* The callers as the event loop runs them.  A caller is switched out only
\* where it suspends.  Acquiring a lock nobody holds does not suspend, and
\* no body under the lock awaits, so the lock is free whenever a caller
\* runs and a call that has started ends before another caller takes a step.
OnLoop(t) == \A u \in Tasks \ {t} : pc[u] = "idle"

LoopTaskNext(t) ==
    \/ \E p \in Paths : OnLoop(t) /\ load_rom_enter(t, p)
    \/ OnLoop(t) /\ pause_enter(t)
    \/ OnLoop(t) /\ resume_enter(t)
    \/ OnLoop(t) /\ stop_enter(t)
    \/ OnLoop(t) /\ lock_acquire(t)
    \/ OnLoop(t) /\ load_rom_finish(t)
    \/ OnLoop(t) /\ pause_body(t)
    \/ OnLoop(t) /\ resume_body(t)
    \/ OnLoop(t) /\ stop_body(t)
    \/ \E b \in Buttons, d \in Durations :
          OnLoop(t) /\ ensure_running(t, "press_button", b, d)
    \/ \E op \in EnsureOps \ {"press_button"} :
          OnLoop(t) /\ ensure_running(t, op, "none", 0)
    \/ OnLoop(t) /\ tool_body(t)

LoopNext == (\E t \in Tasks : LoopTaskNext(t)) \/ Tick

LoopSpec == Init /\ [][LoopNext]_vars

\* One caller, whose press_button calls draw their arguments from the
\* names and durations around the limits of the validation.
PressButtons ==
    {"a", "A", "b", "start", "Start", "SELECT", "up", "down", "left", "RIGHT",
     "x", "a ", ""}
PressDurations == {-1, 0, 1, 2, 59, 60, 61}

PressNext ==
    \/ TaskNext(1)
    \/ \E b \in PressButtons, d \in PressDurations :
          ensure_running(1, "press_button", b, d)
    \/ Tick

PressSpec == Init /\ [][PressNext]_vars

\* One caller issuing calls while a second one polls the session
\* information.
PollNext == TaskNext(1) \/ get_session_info(2) \/ Tick

PollSpec == Init /\ [][PollNext]_vars

\* ------------------------------------------------------- fair scheduling
\* The paths the callers load under FairSpec.
FairPaths == {"missing.gb", "a.gb"}

\* The calls of caller t under FairSpec: every session operation, with
\* ensure_running called directly and through get_screen.
FairTaskNext(t) ==
    \/ \E p \in FairPaths : load_rom_enter(t, p)
    \/ pause_enter(t)
    \/ resume_enter(t)
    \/ stop_enter(t)
    \/ lock_acquire(t)
    \/ load_rom_finish(t)
    \/ pause_body(t)
    \/ resume_body(t)
    \/ stop_body(t)
    \/ \E op \in {"ensure_running", "get_screen"} :
          ensure_running(t, op, "none", 0)
    \/ tool_body(t)

FairNext == \E t \in Tasks : FairTaskNext(t)

\* The step that continues a call caller t has begun.
Continue(t) ==
    \/ lock_acquire(t)
    \/ load_rom_finish(t)
    \/ pause_body(t)
    \/ resume_body(t)
    \/ stop_body(t)
    \/ tool_body(t)

\* The event loop runs every ready task after finitely many others, and
\* asyncio.Lock wakes its waiters in the order they arrived: a caller whose
\* next step is possible again and again takes it.  Engine calls return.
FairSpec ==
    /\ Init /\ [][FairNext]_vars
    /\ \A t \in Tasks : SF_vars(Continue(t))

\* ----------------------------------------------------- reset of the manager
\* api_reset_session: reset() awaits stop() on the manager's session, which
\* acquires that session's lock, ...
reset_enter(t) ==
    /\ pc[t] = "idle" /\ Scheduled(t) /\ LockFree(lock)
    /\ lock' = t
    /\ pc' = [pc EXCEPT ![t] = "reset_locked"]
    /\ call' = [call EXCEPT ![t] = [NoCall EXCEPT !.op = "reset"]]
    /\ Quiet
    /\ UNCHANGED <<session, engines, held>>

\* ... runs stop's body, releases the lock and puts a new GameSession, with
\* a lock of its own, in the manager.
reset_body(t) ==
    /\ pc[t] = "reset_locked"
    /\ \E stopOk \in BOOLEAN :
         LET r == ResetBody(session, engines, stopOk)
         IN /\ Step(t, IF r.raised
                       THEN Raise(t, call[t], r.s, "stop_failed")
                       ELSE Return(t, call[t], r.s), r.eng)
            /\ stop_call' = r.stop_call
    /\ lock' = NoTask
    /\ last_use' = NoUse

\* The callers of the web server and of the MCP server on one event loop:
\* every call, reset included, runs to its end before the next one starts,
\* and every call looks the session up in the manager when it starts.
ResetTaskNext(t) ==
    \/ LoopTaskNext(t)
    \/ OnLoop(t) /\ reset_enter(t)
    \/ OnLoop(t) /\ reset_body(t)

ResetNext == (\E t \in Tasks : ResetTaskNext(t)) \/ Tick

ResetSpec == Init /\ [][ResetNext]_vars

\* ------------------------------------------------- the handle on its own
\* A PyBoyEmulator used directly, as the integration tests do: one caller
\* holds a handle (kept in session.emulator; no GameSession method runs)
\* and calls start(), stop(), load_rom(p), get_pyboy_instance() and
\* is_ready() in any order.  result.status is "ok" or the exception class,
\* result.reason the message class, call[1] the arguments.
HandleInit ==
    /\ session = [GameSessionInit EXCEPT !.emulator = PyBoyEmulator]
    /\ engines = [live |-> {}, last |-> NoEngine]
    /\ lock = NoTask
    /\ pc = [t \in Tasks |-> "idle"]
    /\ call = [t \in Tasks |-> NoCall]
    /\ held = [t \in Tasks |-> NoEngine]
    /\ result = NoResult
    /\ last_use = NoUse
    /\ stop_call = "none"

handle_start ==
    /\ LET r == EmulatorStart(session.emulator)
       IN /\ session' = [session EXCEPT !.emulator = r.e]
          /\ result' = Result("emulator.start",
                              IF r.exc = "none" THEN "ok" ELSE r.exc, NoMsg)
    /\ call' = [call EXCEPT ![1] = [NoCall EXCEPT !.op = "emulator.start"]]
    /\ stop_call' = "none"
    /\ UNCHANGED <<engines, lock, pc, held, last_use>>

handle_stop ==
    /\ \E stopOk \in BOOLEAN :
         LET r == EmulatorStop(session.emulator, engines, stopOk)
         IN /\ session' = [session EXCEPT !.emulator = r.e]
            /\ engines' = r.eng
            /\ stop_call' = r.stop_call
    /\ result' = Result("emulator.stop", "ok", NoMsg)
    /\ call' = [call EXCEPT ![1] = [NoCall EXCEPT !.op = "emulator.stop"]]
    /\ UNCHANGED <<lock, pc, held, last_use>>

handle_load_rom ==
    /\ \E p \in Paths, ctor \in CtorOutcomes, stopOk \in BOOLEAN :
         LET r == EmulatorLoadRom(session.emulator, engines, p, ctor, stopOk)
         IN /\ session' = [session EXCEPT !.emulator = r.e]
            /\ engines' = r.eng
            /\ stop_call' = r.stop_call
            /\ result' = Result("emulator.load_rom",
                                IF r.exc = "none" THEN "ok" ELSE r.exc, r.msg)
            /\ call' = [call EXCEPT ![1] = [NoCall EXCEPT
                                              !.op = "emulator.load_rom",
                                              !.path = p]]
    /\ UNCHANGED <<lock, pc, held, last_use>>

handle_get_pyboy_instance ==
    /\ LET r == GetPyboyInstance(session.emulator)
       IN /\ result' = Result("emulator.get_pyboy_instance",
                              IF r.exc = "none" THEN "ok" ELSE r.exc, NoMsg)
          /\ held' = [held EXCEPT ![1] = r.pyboy]
    /\ call' = [call EXCEPT ![1] = [NoCall EXCEPT
                                      !.op = "emulator.get_pyboy_instance"]]
    /\ stop_call' = "none"
    /\ UNCHANGED <<session, engines, lock, pc, last_use>>

HandleNext ==
    \/ handle_start
    \/ handle_stop
    \/ handle_load_rom
    \/ handle_get_pyboy_instance

HandleSpec == HandleInit /\ [][HandleNext]_vars

\* ------------------------------------------------------------ properties
Quiescent == \A t \in Tasks : pc[t] = "idle"

Active(s) == s.state \in {"running", "paused"}

HandleReady(s) == s.emulator.object /\ is_ready(s.emulator)

InCriticalSection(t) ==
    pc[t] \in {"loading", "pause_locked", "resume_locked", "stop_locked"}

\* A direct load_rom call of task t ends in this step.
LoadEnds(t) == pc[t] = "loading" /\ call[t].op = "load_rom" /\ pc'[t] = "idle"

StopEnds(t) == pc[t] = "stop_locked" /\ pc'[t] = "idle"

\* ---------------------------------------------------------------- C1
\* C1 as claimed: whenever no operation is in flight, the state is Running
\* or Paused if and only if the session holds a handle that is ready.
C1_ActiveIffReady == Quiescent => (Active(session) <=> HandleReady(session))

\* C1 as amended: in every state, a session that is Running or Paused holds
\* a handle that is ready (the converse fails after a failed load on an
\* active session).
C1_ActiveImpliesReady == Active(session) => HandleReady(session)

C1_Witness ==
    /\ Quiescent
    /\ session.state = "paused"
    /\ HandleReady(session)
    /\ session.crash_count > 0

\* ---------------------------------------------------------------- C2
\* C2: at most one caller is inside the critical section of load_rom, pause,
\* resume or stop, and it is the caller that holds the lock.
C2_MutualExclusion ==
    \A t \in Tasks :
        InCriticalSection(t) =>
            /\ lock = t
            /\ \A u \in Tasks \ {t} : ~InCriticalSection(u)

C2_Witness ==
    \E t, u \in Tasks :
        /\ t # u
        /\ pc[t] = "loading"
        /\ pc[u] \in {"resume_wait", "load_rom_wait"}

\* ---------------------------------------------------------------- C3
\* C3: the instance a tool body holds is live and is the one the session's
\* handle holds, from the moment get_emulator() returned it to the end of the
\* use; no load_rom or stop has run in between.
C3_UseOfCurrentEngine ==
    /\ \A t \in Tasks :
          pc[t] = "tool_body" =>
              /\ held[t] \in engines.live
              /\ held[t] = session.emulator.pyboy
    /\ last_use # NoUse =>
          /\ last_use.status = "live"
          /\ last_use.pyboy = last_use.current

C3_Witness ==
    /\ last_use # NoUse
    /\ last_use.status = "live"
    /\ \E u \in Tasks : pc[u] = "stop_locked"

\* ---------------------------------------------------------------- C4
\* C4: every stop() ends without an error in state Idle with no path, no
\* fingerprint, no error message and no handle; the instance the handle held
\* has been stopped, also when the engine's stop call raised.
C4_StopClears ==
    [][\A t \in Tasks :
          StopEnds(t) =>
              /\ result'.op = "stop" /\ result'.status = "ok"
              /\ session'.state = "idle"
              /\ session'.current_rom_path = NoPath
              /\ session'.current_rom_hash = NoHash
              /\ session'.error_message = NoMsg
              /\ session'.emulator = NoEmulator
              /\ engines'.live = engines.live \ {session.emulator.pyboy}
              /\ lock' = NoTask]_vars

C4_Witness ==
    /\ result.op = "stop" /\ result.status = "ok"
    /\ stop_call = "raised"
    /\ session.state = "idle"
    /\ session.crash_count > 0

\* ---------------------------------------------------------------- C5
\* C5 as claimed: after stop() both timestamps are cleared, the frame and
\* input counters are 0 and crash_count is what it was.
C5_StopResetsMetrics ==
    [][\A t \in Tasks :
          StopEnds(t) =>
              /\ session'.session_start_time = NoTime
              /\ session'.last_activity_time = NoTime
              /\ session'.total_frames = 0
              /\ session'.total_inputs = 0
              /\ session'.crash_count = session.crash_count]_vars

\* ---------------------------------------------------------------- C6
\* C6: from every reachable state, a second stop() right after a stop()
\* raises nothing and leaves the session and the engines as the first one
\* left them.
C6_StopIdempotent ==
    lock = NoTask =>
        \A ok1, ok2 \in BOOLEAN :
            LET r1 == StopBody(session, engines, ok1)
                r2 == StopBody(r1.s, r1.eng, ok2)
            IN /\ ~r1.raised /\ ~r2.raised
               /\ r2.s = r1.s
               /\ r2.eng = r1.eng

C6_Witness ==
    /\ result.op = "stop" /\ result.status = "ok"
    /\ stop_call = "none"
    /\ session.state = "idle"
    /\ session.total_inputs > 0

\* ---------------------------------------------------------------- C7
\* C7: a load_rom(path) that succeeds ends in Running with the path and the
\* fingerprint of its content recorded, no error message, both timestamps
\* set to the current time, both counters 0 and a ready handle holding the
\* path; it reports success and state "running".
C7_LoadSuccess ==
    [][\A t \in Tasks :
          (LoadEnds(t) /\ result'.status = "ok") =>
              /\ session'.state = "running"
              /\ session'.current_rom_path = call[t].path
              /\ session'.current_rom_hash = Sha256Hex(Content(call[t].path))[1]
              /\ session'.error_message = NoMsg
              /\ session'.session_start_time = TimeNow
              /\ session'.last_activity_time = TimeNow
              /\ session'.total_frames = 0
              /\ session'.total_inputs = 0
              /\ HandleReady(session')
              /\ session'.emulator.current_rom_path = call[t].path
              /\ session'.emulator.pyboy \in engines'.live
              /\ result'.op = "load_rom"
              /\ result'.session_state = "running"]_vars

C7_Witness ==
    /\ result.op = "load_rom" /\ result.status = "ok"
    /\ session.state = "running"
    /\ session.crash_count > 0
    /\ session.current_rom_path = "b.GBC"

\* ---------------------------------------------------------------- C8
\* C8: a load_rom that ends in a crash leaves state Crashed, crash_count one
\* greater, an error message, a SessionError for the caller and the lock
\* free; and it is the only way a load_rom changes crash_count.
C8_LoadCrash ==
    [][\A t \in Tasks :
          LoadEnds(t) =>
              /\ (result'.reason = "crashed" \/ session'.state = "crashed") =>
                    /\ session'.state = "crashed"
                    /\ session'.crash_count = session.crash_count + 1
                    /\ session'.error_message = "unexpected"
                    /\ result'.status = "SessionError"
                    /\ result'.reason = "crashed"
                    /\ lock' = NoTask
              /\ session'.state # "crashed" =>
                    session'.crash_count = session.crash_count]_vars

C8_Witness ==
    /\ result.op = "load_rom" /\ result.reason = "crashed"
    /\ session.state = "crashed"
    /\ session.crash_count = 2
    /\ lock = NoTask

\* ---------------------------------------------------------------- C9
\* C9: a load_rom of a missing path ends in Error with "not found"; one
\* that fails on the extension or on an error of the handle ends in Error
\* with that reason; crash_count is unchanged and the caller gets a
\* SessionError carrying the reason.
KnownFailures == {"not_found", "bad_extension", "corrupt", "access", "init_failed"}

C9_LoadError ==
    [][\A t \in Tasks :
          LoadEnds(t) =>
              /\ ~Exists(call[t].path) => result'.reason = "not_found"
              /\ (/\ Exists(call[t].path)
                  /\ Lower(Suffix(call[t].path)) \notin {".gb", ".gbc"}
                  /\ result'.reason # "crashed") =>
                    result'.reason = "bad_extension"
              /\ result'.reason \in KnownFailures =>
                    /\ session'.state = "error"
                    /\ session'.error_message = result'.reason
                    /\ session'.crash_count = session.crash_count
                    /\ result'.status = "SessionError"
                    /\ lock' = NoTask
              /\ session'.state = "error" => result'.reason \in KnownFailures]_vars

C9_Witness ==
    /\ result.op = "load_rom" /\ result.status = "SessionError"
    /\ result.reason = "not_found"
    /\ session.state = "error"
    /\ session.crash_count > 0

\* ---------------------------------------------------------------- C10
\* C10 as claimed: after load_rom(P) has crashed the session remembers P,
\* whatever it had loaded before.
C10_CrashRemembersPath ==
    [][\A t \in Tasks :
          (LoadEnds(t) /\ session'.state = "crashed") =>
              session'.current_rom_path = call[t].path]_vars

\* ---------------------------------------------------------------- C11
\* The load_rom that ensure_running retried for task t ends in this step.
RecoverEnds(t) ==
    pc[t] = "loading" /\ call[t].op \in EnsureOps /\ pc'[t] # "loading"

\* C11 as claimed: when the load retried by ensure_running succeeds the
\* state is Running; when it fails, whatever the failure, the state is
\* Crashed, crash_count is one greater and the caller gets the "failed to
\* recover" error.
C11_RetryFailureStaysCrashed ==
    [][\A t \in Tasks :
          RecoverEnds(t) =>
              IF result'.reason = "recover_failed"
              THEN /\ session'.state = "crashed"
                   /\ session'.crash_count = session.crash_count + 1
                   /\ result'.status = ErrorKind(call[t].op)
              ELSE session'.state = "running"]_vars

\* C11 as amended: when the retried load succeeds the state is Running; when
\* it fails the caller gets the "failed to recover" error, and the state is
\* Crashed with crash_count one greater after an unexpected failure, but
\* Error with crash_count unchanged after a ROMError or EmulatorStateError.
C11_RetryOutcome ==
    [][\A t \in Tasks :
          RecoverEnds(t) =>
              IF result'.reason = "recover_failed"
              THEN /\ result'.status = ErrorKind(call[t].op)
                   /\ pc'[t] = "idle"
                   /\ lock' = NoTask
                   /\ \/ /\ session'.state = "crashed"
                         /\ session'.crash_count = session.crash_count + 1
                         /\ session'.error_message = "unexpected"
                      \/ /\ session'.state = "error"
                         /\ session'.crash_count = session.crash_count
                         /\ session'.error_message \in KnownFailures
              ELSE session'.state = "running"]_vars

C11_Witness ==
    /\ result.op = "ensure_running"
    /\ result.reason = "recover_failed"
    /\ session.state = "error"

\* ---------------------------------------------------------------- C12
ValidationFailures == {"invalid_button", "duration_too_short", "duration_too_long"}

\* A caller enters ensure_running() in this step (directly or through a
\* tool whose arguments were accepted): it is left waiting for the lock or
\* in its tool body, or the call has ended at once.
EnsureCall ==
    \/ \E t \in Tasks :
          /\ pc[t] = "idle"
          /\ pc'[t] \in {"resume_wait", "load_rom_wait", "tool_body"}
    \/ /\ pc' = pc
       /\ result'.op \in EnsureOps
       /\ result'.reason \notin ValidationFailures

\* C12: ensure_running() on a crashed session that remembers no path raises
\* the "no ROM to recover" error, attempts no load (no caller waits for or
\* takes the lock, no engine is touched) and leaves every session field as
\* it was.
C12_NoPathNoRecovery ==
    [][(/\ EnsureCall
        /\ session.state = "crashed"
        /\ session.current_rom_path = NoPath) =>
          /\ result'.reason = "no_rom_to_recover"
          /\ result'.status = ErrorKind(result'.op)
          /\ session' = session
          /\ engines' = engines
          /\ lock' = lock
          /\ pc' = pc]_vars

C12_Witness ==
    /\ result.op = "ensure_running"
    /\ result.status = "SessionError"
    /\ result.reason = "no_rom_to_recover"
    /\ session.state = "crashed"
    /\ session.current_rom_path = NoPath
    /\ session.crash_count = 2

\* ---------------------------------------------------------------- C13
\* C13: ensure_running() entered in state Idle, Loading or Error raises at
\* once - "no ROM loaded", "still loading", or the error carrying the
\* session's last error message - attempts no load or recovery, and leaves
\* the session (state, handle, counters), the engines and the lock as they
\* were.
C13_NotRunnableRaises ==
    [][(EnsureCall /\ session.state \in {"idle", "loading", "error"}) =>
          /\ result'.reason =
                (CASE session.state = "idle" -> "no_rom_loaded"
                   [] session.state = "loading" -> "still_loading"
                   [] OTHER -> "error_state")
          /\ result'.detail =
                (IF session.state = "error" THEN session.error_message
                 ELSE NoMsg)
          /\ result'.status = ErrorKind(result'.op)
          /\ session' = session
          /\ engines' = engines
          /\ lock' = lock
          /\ pc' = pc]_vars

C13_Witness ==
    /\ result.op \in ToolOps
    /\ result.reason = "still_loading"
    /\ session.state = "loading"
    /\ \E u \in Tasks : pc[u] = "loading" /\ lock = u

\* ---------------------------------------------------------------- C14
\* ensure_running() returns normally in this step: to its direct caller, or
\* into get_emulator(), which then hands the handle to the tool body or
\* raises one of its own errors.
EnsureReturns ==
    \/ \E t \in Tasks : pc[t] # "tool_body" /\ pc'[t] = "tool_body"
    \/ result'.op = "ensure_running" /\ result'.status = "ok"
    \/ result'.reason \in {"not_ready", "not_running"}

\* C14: whenever ensure_running() returns normally the session state is
\* Running at that moment, with the calls of the other callers in any order
\* around it; a call made in state Paused has resumed the session.
C14_ReturnsRunning == [][EnsureReturns => session'.state = "running"]_vars

C14_Witness ==
    /\ result.op = "ensure_running" /\ result.status = "ok"
    /\ result.session_state = "running"
    /\ session.state = "running"
    /\ session.session_start_time = "past"

\* ---------------------------------------------------------------- C15
\* C15: get_emulator() never raises "emulator is not ready": whenever the
\* ensure_running() of a tool returns normally the session holds a ready
\* handle, the tool gets the instance of that handle and the time of last
\* activity is the current time.
C15_NotReadyUnreachable ==
    [][/\ result'.reason # "not_ready"
       /\ \A t \in Tasks :
             (pc[t] # "tool_body" /\ pc'[t] = "tool_body") =>
                 /\ HandleReady(session')
                 /\ held'[t] = session'.emulator.pyboy
                 /\ session'.last_activity_time = TimeNow]_vars

C15_Witness ==
    /\ \E t \in Tasks : pc[t] = "tool_body" /\ held[t] = session.emulator.pyboy
    /\ session.last_activity_time = TimeNow
    /\ session.session_start_time = "past"
    /\ session.crash_count > 0

\* ---------------------------------------------------------------- C16
\* C16 as claimed: in every reachable state with state Idle the session has
\* no path, no session start time, no time of last activity and no error
\* message.
C16_IdleIsClean ==
    session.state = "idle" =>
        /\ session.current_rom_path = NoPath
        /\ session.session_start_time = NoTime
        /\ session.last_activity_time = NoTime
        /\ session.error_message = NoMsg

\* ---------------------------------------------------------------- C17
\* C17: no step decreases crash_count; a step changes it only by +1, and
\* only as a load_rom (direct or retried by ensure_running) that ends
\* Crashed; stop and a successful load leave it unchanged; the three
\* counters are never negative.
C17_CrashCountMonotonic ==
    [][/\ session'.crash_count >= session.crash_count
       /\ session'.crash_count # session.crash_count =>
             /\ session'.crash_count = session.crash_count + 1
             /\ session.state = "loading"
             /\ session'.state = "crashed"
             /\ result'.reason \in {"crashed", "recover_failed"}
       /\ (result'.op = "stop" \/ result'.status = "ok") =>
             session'.crash_count = session.crash_count
       /\ session'.crash_count >= 0
       /\ session'.total_frames >= 0
       /\ session'.total_inputs >= 0]_vars

C17_Witness ==
    /\ result.op = "load_rom" /\ result.status = "ok"
    /\ session.crash_count = 2
    /\ session.state = "running"
    /\ stop_call = "none"
    /\ session.emulator.pyboy = 1

\* ---------------------------------------------------------------- C18
\* C18: get_session_info() returns in every session state, also while
\* another caller holds the lock inside load_rom, a payload whose state
\* field is the session state (with the crash count and the error message
\* as they are); it raises nothing, and it changes no session field, no
\* counter, not the handle, not the engines and not the lock.
C18_GetInfoReadOnly ==
    [][result'.op = "get_session_info" =>
          /\ result'.status = "ok"
          /\ result'.info.state = session.state
          /\ result'.info.crash_count = session.crash_count
          /\ result'.info.error_message = session.error_message
          /\ session' = session
          /\ engines' = engines
          /\ lock' = lock
          /\ pc' = pc /\ call' = call /\ held' = held]_vars

C18_Witness ==
    /\ result.op = "get_session_info" /\ result.status = "ok"
    /\ result.info.state = "loading"
    /\ session.state = "loading"
    /\ lock = 1 /\ pc[1] = "loading"
    /\ session.crash_count > 0

C20_HashRoundTrip ==
    [][\A t \in Tasks :
          (LoadEnds(t) /\ result'.status = "ok") =>
              /\ session'.state = "running"
              /\ result'.rom_hash = session'.current_rom_hash
              /\ session'.current_rom_hash # NoHash
              /\ session.current_rom_path = call[t].path =>
                    session'.current_rom_hash = session.current_rom_hash
              /\ (/\ session.current_rom_path # NoPath
                  /\ Sha256Hex(Content(session.current_rom_path))[1]
                        # Sha256Hex(Content(call[t].path))[1]) =>
                    session'.current_rom_hash # session.current_rom_hash]_vars

\* A reload of the remembered path is in flight, after a load in between
\* has failed.
C20_Witness ==
    /\ pc[1] = "loading" /\ call[1].op = "load_rom"
    /\ call[1].path = "b.GBC"
    /\ session.current_rom_path = "b.GBC"
    /\ session.current_rom_hash = "h2"
    /\ session.crash_count > 0
    /\ HandleReady(session)

\* ---------------------------------------------------------------- C21
\* The limits the claim states for press_button's arguments.
ClaimedValid(b, d) ==
    /\ 1 <= d /\ d <= 60
    /\ Upper(b) \in {"A", "B", "START", "SELECT", "UP", "DOWN", "LEFT", "RIGHT"}

\* press_button(b, d) can end, from the current state, as a validation
\* error.
CanReject(b, d) ==
    ENABLED (/\ ensure_running(1, "press_button", b, d)
             /\ result'.reason \in ValidationFailures)

\* press_button(b, d) can go on, from the current state, into the session.
CanAccept(b, d) ==
    ENABLED (/\ ensure_running(1, "press_button", b, d)
             /\ result'.reason \notin ValidationFailures)

\* C21: press_button accepts a name and a duration exactly when the
\* duration is in 1..60 and the upper-cased name is one of the eight
\* buttons; a rejected call leaves the session, the engines, the lock and
\* the caller as they were (no frame, counter, timestamp, resume or
\* recovery), in whatever state the session is.
C21_Validation ==
    /\ [](pc[1] = "idle" =>
            \A b \in PressButtons, d \in PressDurations :
                /\ CanAccept(b, d) <=> ClaimedValid(b, d)
                /\ CanReject(b, d) <=> ~ClaimedValid(b, d))
    /\ [][result'.reason \in ValidationFailures =>
             /\ result'.op = "press_button"
             /\ result'.status = "ValueError"
             /\ session' = session
             /\ engines' = engines
             /\ lock' = lock
             /\ pc' = pc /\ held' = held
             /\ last_use' = NoUse]_vars

C21_Witness ==
    /\ result.op = "press_button"
    /\ result.reason = "duration_too_long"
    /\ session.state = "paused"
    /\ session.total_inputs > 0

\* ---------------------------------------------------------------- C22
\* C22: a press_button(name, d) that succeeds on a Running session ticks
\* the session's engine exactly d times (pressing before every tick,
\* releasing once), reports d frames advanced and the upper-case name, adds
\* d to total_frames and 1 to total_inputs, sets the time of last activity
\* to the current time and changes nothing else: the state stays Running.
C22_PressEffect ==
    [][\A t \in Tasks :
          (/\ pc[t] = "tool_body" /\ call[t].op = "press_button"
           /\ pc'[t] = "idle" /\ result'.status = "ok"
           /\ session.state = "running") =>
              /\ last_use'.ticks = call[t].duration
              /\ last_use'.presses = call[t].duration
              /\ last_use'.releases = 1
              /\ last_use'.pyboy = session.emulator.pyboy
              /\ last_use'.status = "live"
              /\ result'.op = "press_button"
              /\ result'.frames_advanced = call[t].duration
              /\ result'.button = Upper(call[t].button)
              /\ result'.button \in valid_buttons
              /\ session' = [session EXCEPT
                               !.total_frames = @ + call[t].duration,
                               !.total_inputs = @ + 1,
                               !.last_activity_time = TimeNow]
              /\ engines' = engines]_vars

C22_Witness ==
    /\ result.op = "press_button" /\ result.status = "ok"
    /\ result.frames_advanced = 2
    /\ last_use.ticks = 2
    /\ session.total_frames = 2
    /\ session.total_inputs = 1
    /\ session.state = "running"

\* ---------------------------------------------------------------- C23
\* C23: pause() changes the session only when it is Running, and then only
\* its state, to Paused; resume() only when it is Paused, and then only its
\* state, to Running.  In every other state each returns normally and
\* leaves every session field as it was.  Neither touches the handle or
\* the engines.
C23_PauseResumeFrame ==
    [][\A t \in Tasks :
          /\ (pc[t] = "pause_locked" /\ pc'[t] = "idle") =>
                /\ result'.op = "pause" /\ result'.status = "ok"
                /\ session' = IF session.state = "running"
                              THEN [session EXCEPT !.state = "paused"]
                              ELSE session
                /\ engines' = engines
          /\ (pc[t] = "resume_locked" /\ call[t].op = "resume"
                                      /\ pc'[t] = "idle") =>
                /\ result'.op = "resume" /\ result'.status = "ok"
                /\ session' = IF session.state = "paused"
                              THEN [session EXCEPT !.state = "running"]
                              ELSE session
                /\ engines' = engines]_vars

C23_Witness ==
    /\ result.op = "pause" /\ result.status = "ok"
    /\ session.state = "crashed"
    /\ session.total_inputs > 0

\* ---------------------------------------------------------------- C24
\* C24: the handle's stop() never raises and, from every handle state and
\* also when the engine's own stop call raises, leaves the handle with no
\* instance, no path and the running flag off, and no engine live; a
\* further stop() from there changes nothing.
C24_HandleStopIdempotent ==
    [][result'.op = "emulator.stop" =>
          /\ result'.status = "ok"
          /\ session'.emulator = PyBoyEmulator
          /\ session.emulator.pyboy \notin engines'.live
          /\ \A again \in BOOLEAN :
                LET r == EmulatorStop(session'.emulator, engines', again)
                IN r.e = session'.emulator /\ r.eng = engines'
                   /\ r.stop_call = "none"]_vars

C24_Witness ==
    /\ result.op = "emulator.stop" /\ stop_call = "raised"
    /\ session.emulator = PyBoyEmulator
    /\ engines.last # NoEngine /\ engines.live = {}

\* ---------------------------------------------------------------- C25
\* C25: the handle's start() raises EmulatorStateError exactly when the
\* running flag is already set (by an earlier start() or a successful
\* load_rom) and then changes nothing; otherwise it returns, sets the flag
\* and leaves the handle with no instance and no path, so that is_ready()
\* is still false.
C25_HandleStart ==
    [][result'.op = "emulator.start" =>
          IF session.emulator.is_running
          THEN /\ result'.status = "EmulatorStateError"
               /\ session' = session /\ engines' = engines
          ELSE /\ result'.status = "ok"
               /\ session'.emulator =
                      [PyBoyEmulator EXCEPT !.is_running = TRUE]
               /\ ~is_ready(session'.emulator)
               /\ engines' = engines]_vars

C25_Witness ==
    /\ result.op = "emulator.start" /\ result.status = "EmulatorStateError"
    /\ session.emulator.pyboy # NoEngine
    /\ session.emulator.current_rom_path = "b.GBC"

\* ---------------------------------------------------------------- C26
PathAccepted(p) == Exists(p) /\ Lower(Suffix(p)) \in {".gb", ".gbc"}

\* On success the handle holds a new, live instance bound to the path.
NewInstanceBound(old, p) ==
    /\ session'.emulator.pyboy # NoEngine
    /\ session'.emulator.pyboy # old
    /\ session'.emulator.pyboy \in engines'.live
    /\ session'.emulator.current_rom_path = p
    /\ session'.emulator.is_running

\* C26 as stated: every load_rom call made while the handle holds an
\* instance, whatever its outcome, has stopped that instance by the time
\* it returns or raises, and on success the handle holds a new instance
\* bound to the new path.
C26_EveryLoadStopsPrevious ==
    [][(result'.op = "emulator.load_rom"
            /\ session.emulator.pyboy # NoEngine) =>
          /\ session.emulator.pyboy \notin engines'.live
          /\ stop_call' # "none"
          /\ result'.status = "ok" =>
                NewInstanceBound(session.emulator.pyboy, call'[1].path)]_vars

\* C26 amended: a load_rom call whose path passes the existence and
\* extension checks has stopped the instance held before by the time it
\* returns or raises, also when the constructor fails, and on success the
\* handle holds a new instance bound to the new path; a call rejected by
\* one of the two checks raises ROMError and leaves the handle and its
\* instance as they were.
C26_AcceptedLoadStopsPrevious ==
    [][result'.op = "emulator.load_rom" =>
          IF PathAccepted(call'[1].path)
          THEN /\ session.emulator.pyboy # NoEngine =>
                     /\ session.emulator.pyboy \notin engines'.live
                     /\ stop_call' # "none"
               /\ result'.status = "ok" =>
                     NewInstanceBound(session.emulator.pyboy, call'[1].path)
          ELSE /\ result'.status = "ROMError"
               /\ session' = session /\ engines' = engines
               /\ stop_call' = "none"]_vars

C26_Witness ==
    /\ result.op = "emulator.load_rom"
    /\ result.status = "EmulatorStateError"
    /\ stop_call = "returned"
    /\ engines.live = {} /\ engines.last # NoEngine

\* ---------------------------------------------------------------- C27
CtorFailures == {"corrupt", "access", "init_failed"}

\* C27: when the engine constructor fails inside the handle's load_rom,
\* the handle is left with no instance, no path and the running flag off,
\* and what it raises is a ROMError or an EmulatorStateError, so that the
\* session's load_rom ends in state Error and counts no crash, raising a
\* SessionError to a direct caller; so does the load_rom that
\* ensure_running retries on a crashed session.
C27_CtorFailureIsError ==
    [][\A t \in Tasks :
          (pc[t] = "loading" /\ pc'[t] = "idle"
                /\ session'.error_message \in CtorFailures) =>
              /\ session'.state = "error"
              /\ session'.crash_count = session.crash_count
              /\ call[t].op = "load_rom" => result'.status = "SessionError"
              /\ session'.emulator = PyBoyEmulator
              /\ ~is_ready(session'.emulator)
              /\ engines'.live = {}]_vars

C27_Witness ==
    /\ result.op = "load_rom" /\ result.reason = "init_failed"
    /\ session.state = "error"
    /\ stop_call = "returned"
    /\ session.current_rom_path = "a.gb"

\* ---------------------------------------------------------------- C28
\* C28 as stated: in every reachable state of a handle, the instance is
\* present if and only if the running flag is set.
C28_InstanceIffRunning ==
    session.emulator.pyboy # NoEngine <=> session.emulator.is_running

\* C28 amended: in every reachable state of a handle, an instance is
\* present only if the running flag is set, and exactly when a path is
\* recorded; the held instance is live.  (The flag is also set, with no
\* instance, after start().)
C28_InstanceImpliesRunning ==
    /\ session.emulator.pyboy # NoEngine => session.emulator.is_running
    /\ session.emulator.pyboy # NoEngine <=>
           session.emulator.current_rom_path # NoPath
    /\ session.emulator.pyboy # NoEngine =>
           session.emulator.pyboy \in engines.live

C28_Witness ==
    /\ result.op = "emulator.load_rom" /\ result.status = "ok"
    /\ stop_call = "raised"
    /\ session.emulator.pyboy # NoEngine /\ session.emulator.is_running

\* ---------------------------------------------------------------- C29
\* C29: reset() always completes, and when it has completed the manager's
\* session is a new Idle session with no handle, its lock is free and no
\* engine instance is live, whatever calls of whichever caller came before
\* it and whatever the engine's stop call did.
C29_ResetToIdle ==
    [][\A t \in Tasks :
          (pc[t] = "reset_locked" /\ pc'[t] = "idle") =>
              /\ result'.op = "reset" /\ result'.status = "ok"
              /\ session' = GameSessionInit
              /\ session'.state = "idle" /\ ~session'.emulator.object
              /\ engines'.live = {}
              /\ lock' = NoTask
              /\ \A u \in Tasks : pc'[u] = "idle" /\ held'[u] = NoEngine]_vars

C29_Witness ==
    /\ result.op = "reset" /\ result.status = "ok"
    /\ stop_call = "raised"
    /\ session = GameSessionInit
    /\ engines.last = 2 /\ engines.live = {}

\* ---------------------------------------------------------------- C30
\* A load_rom of task t, direct or retried by ensure_running, succeeds in
\* this step.
LoadSucceeds(t) ==
    pc[t] = "loading" /\ pc'[t] # "loading" /\ session'.state = "running"

\* A stop() of task t ends in this step, or a reset() that replaces the
\* session by a new one.
ClearsPath(t) ==
    StopEnds(t) \/ (pc[t] = "reset_locked" /\ pc'[t] = "idle")

\* C30: current_rom_path is absent in a new session, is set by every load
\* that succeeds (to the path loaded), is cleared by every stop() and by
\* the replacement of the session, and is changed by nothing else: not by
\* a load that fails, not by pause() or resume(), not by a tool call.  So
\* it is present exactly when a load has succeeded since the session was
\* created or last stopped.
C30_PathTracksLoads ==
    /\ session.current_rom_path = NoPath
    /\ [][/\ \A t \in Tasks :
               LoadSucceeds(t) =>
                  /\ session'.current_rom_path # NoPath
                  /\ session'.current_rom_path =
                        IF call[t].op = "load_rom" THEN call[t].path
                        ELSE session.current_rom_path
          /\ \A t \in Tasks :
               ClearsPath(t) => session'.current_rom_path = NoPath
          /\ (\A t \in Tasks : ~LoadSucceeds(t) /\ ~ClearsPath(t)) =>
               session'.current_rom_path = session.current_rom_path]_vars

C30_Witness ==
    /\ result.op = "load_rom" /\ result.reason = "bad_extension"
    /\ session.state = "error"
    /\ session.current_rom_path = "b.GBC"
    /\ session.total_inputs > 0

\* ---------------------------------------------------------------- C31
\* C31: a load_rom that gets as far as the fingerprint goes to a newly
\* constructed handle exactly when the session holds no handle or the
\* fingerprint of the file differs from the recorded one, and then the
\* instance of the old handle has been stopped; otherwise it goes to the
\* handle the session holds, which stops its instance and constructs a new
\* one all the same.
C31_HandleReplacement ==
    [][\A t \in Tasks :
          (LoadEnds(t) /\ Exists(call[t].path)
                      /\ session'.state # "crashed") =>
              LET p   == call[t].path
                  old == session.emulator
              IN /\ result'.handle \in {"new", "kept"}
                 /\ result'.handle = "new" <=>
                       (~old.object
                          \/ calculate_rom_hash(p) # session.current_rom_hash)
                 /\ (result'.handle = "new" /\ old.pyboy # NoEngine) =>
                       /\ old.pyboy \notin engines'.live
                       /\ stop_call' # "none"
                 /\ (result'.handle = "kept" /\ old.pyboy # NoEngine) =>
                       /\ old.pyboy \notin engines'.live
                       /\ stop_call' # "none"
                       /\ session'.emulator.pyboy # old.pyboy
                 /\ result'.status = "ok" =>
                       /\ session'.emulator.pyboy \in engines'.live
                       /\ session'.emulator.current_rom_path = p]_vars

C31_Witness ==
    /\ result.op = "load_rom" /\ result.status = "ok"
    /\ result.handle = "kept"
    /\ stop_call = "returned"
    /\ session.emulator.pyboy = 2

\* ---------------------------------------------------------------- C32
\* Task t starts a load attempt on behalf of ensure_running in this step.
AttemptStarts(t) == pc[t] # "load_rom_wait" /\ pc'[t] = "load_rom_wait"

\* C32: an ensure_running() call attempts a load exactly when it finds
\* the session Crashed with a remembered path, and then attempts the load
\* of that path once: when the attempt has ended the call returns, raises
\* or goes on into the tool body, and no later step of the call starts
\* another attempt.  A call that finds any other state attempts none.
C32_OneAttempt ==
    [][/\ \A t \in Tasks :
            /\ AttemptStarts(t) =>
                  /\ pc[t] = "idle"
                  /\ session.state = "crashed"
                  /\ session.current_rom_path # NoPath
                  /\ call'[t].path = session.current_rom_path
                  /\ call'[t].op \in EnsureOps
            /\ pc[t] = "load_rom_wait" =>
                  pc'[t] \in {"load_rom_wait", "loading"}
            /\ RecoverEnds(t) => pc'[t] \in {"idle", "tool_body"}
            /\ (pc[t] # "loading" /\ pc'[t] = "loading") =>
                  \/ pc[t] = "load_rom_wait"
                  \/ pc[t] = "idle" /\ call'[t].op = "load_rom"
       /\ (EnsureCall /\ session.state = "crashed"
                      /\ session.current_rom_path # NoPath) =>
            \E t \in Tasks : AttemptStarts(t)]_vars

C32_Witness ==
    /\ result.op = "press_button" /\ result.reason = "recover_failed"
    /\ session.state = "crashed"
    /\ session.crash_count = 2
    /\ session.current_rom_path = "b.GBC"

\* ---------------------------------------------------------------- C33
\* C33: a load_rom enters Loading with the error message cleared and the
\* lock held by the loading caller, and leaves Loading for Running, Error
\* or Crashed in the step that releases the lock.  The state is never
\* Loading while the lock is free, and the state that follows Loading is
\* Running, Error or Crashed, for every interleaving of the callers.
C33_LoadingTransient ==
    /\ [](session.state = "loading" =>
             /\ lock # NoTask
             /\ pc[lock] = "loading"
             /\ session.error_message = NoMsg)
    /\ [][/\ \A t \in Tasks :
               /\ (pc[t] # "loading" /\ pc'[t] = "loading") =>
                     /\ session'.state = "loading"
                     /\ session'.error_message = NoMsg
                     /\ lock' = t
               /\ (pc[t] = "loading" /\ pc'[t] # "loading") =>
                     /\ session.state = "loading" /\ lock = t
                     /\ session'.state \in {"running", "error", "crashed"}
                     /\ lock' = NoTask
          /\ (session.state = "loading" /\ session'.state # "loading") =>
               session'.state \in {"running", "error", "crashed"}]_vars

C33_Witness ==
    /\ result.op = "ensure_running" /\ result.reason = "still_loading"
    /\ session.state = "loading"
    /\ session.crash_count = 1
    /\ lock = 1 /\ pc[1] = "loading" /\ call[1].op \in ToolOps

\* ---------------------------------------------------------------- C34
\* C34: in every reachable state at most one engine instance has been
\* constructed and not stopped, and it is the instance held by the handle
\* of the manager's current session.
C34_NoEngineLeak ==
    /\ Cardinality(engines.live) <= 1
    /\ \A i \in engines.live :
          session.emulator.object /\ session.emulator.pyboy = i

C34_Witness ==
    /\ result.op = "load_rom" /\ result.status = "ok"
    /\ result.handle = "new"
    /\ stop_call = "raised"
    /\ engines.live = {2} /\ session.emulator.pyboy = 2

\* ---------------------------------------------------------------- C35
\* C35: the lock is free whenever no caller is inside load_rom, pause,
\* resume or stop; a caller that waits for the lock on behalf of
\* ensure_running does not hold it; and, engine calls returning and the
\* scheduling being fair, every call a caller has begun completes.
C35_EveryCallCompletes ==
    /\ []((\A t \in Tasks : ~InCriticalSection(t)) => lock = NoTask)
    /\ [](\A t \in Tasks :
            pc[t] \in {"resume_wait", "load_rom_wait"} => lock # t)
    /\ \A t \in Tasks : (pc[t] # "idle") ~> (pc[t] = "idle")

C35_Witness ==
    /\ pc[1] = "load_rom_wait" /\ call[1].op = "get_screen"
    /\ lock = 2 /\ pc[2] = "stop_locked"

\* ---------------------------------------------------------------- C36
\* The fields that describe the loaded program and its metrics.
Recorded(s) ==
    <<s.current_rom_path, s.current_rom_hash, s.session_start_time,
      s.last_activity_time, s.total_frames, s.total_inputs>>

\* C36: the start of a load_rom and a load_rom that ends in Error or
\* Crashed, called directly or by ensure_running, leave path, fingerprint,
\* both timestamps and both counters as they were; the failure sets an error
\* message, adds one to crash_count exactly when it ends Crashed, and the
\* session info differs from the info before it in state, error message
\* and crash count only.
C36_FailedLoadFrame ==
    [][\A t \in Tasks :
          /\ (pc[t] # "loading" /\ pc'[t] = "loading") =>
                /\ Recorded(session') = Recorded(session)
                /\ session'.crash_count = session.crash_count
          /\ (pc[t] = "loading" /\ pc'[t] # "loading"
                                /\ session'.state # "running") =>
                /\ session'.state \in {"error", "crashed"}
                /\ Recorded(session') = Recorded(session)
                /\ session'.error_message # NoMsg
                /\ session'.crash_count =
                      IF session'.state = "crashed"
                      THEN session.crash_count + 1 ELSE session.crash_count
                /\ GetInfo(session', TimeNow).info =
                      [GetInfo(session, TimeNow).info EXCEPT
                          !.state = session'.state,
                          !.error_message = session'.error_message,
                          !.crash_count = session'.crash_count]]_vars

C36_Witness ==
    /\ result.op = "load_rom" /\ result.reason = "corrupt"
    /\ session.state = "error"
    /\ session.current_rom_hash = "h1"
    /\ session.total_frames = 2
    /\ ~HandleReady(session)

\* ---------------------------------------------------------------- C37
\* C37: whenever no call is in flight, an error message is present exactly
\* when the state is Error or Crashed.  The message is set only by a load
\* that fails, and is cleared only by the start of a load, by stop() and by
\* the replacement of the session.
C37_ErrorMessageIffFailed ==
    /\ [](Quiescent =>
             (session.error_message # NoMsg
                 <=> session.state \in {"error", "crashed"}))
    /\ [][\A t \in Tasks :
             /\ (session.error_message = NoMsg
                     /\ session'.error_message # NoMsg) =>
                   \E u \in Tasks :
                      /\ pc[u] = "loading" /\ pc'[u] # "loading"
                      /\ session'.state \in {"error", "crashed"}
             /\ (session.error_message # NoMsg
                     /\ session'.error_message = NoMsg) =>
                   \E u \in Tasks :
                      \/ pc[u] # "loading" /\ pc'[u] = "loading"
                      \/ ClearsPath(u)]_vars

C37_Witness ==
    /\ Quiescent
    /\ result.op = "resume" /\ result.status = "ok"
    /\ session.state = "error"
    /\ session.error_message = "access"

\* ---------------------------------------------------------------- C38
\* The button is held on the engine after a sequence of calls when the last
\* press comes after the last release.
HeldAfter(calls) ==
    \E i \in 1..Len(calls) :
       /\ calls[i] = "press"
       /\ \A j \in (i + 1)..Len(calls) : calls[j] # "release"

\* C38: a press_button(name, d) that succeeds has made 2d + 1 engine calls:
\* a press before each of the d ticks and one release, after the d-th tick,
\* so the button is not held when the call returns, and the two metrics are
\* recorded in the step that follows the release.  A press_button in which
\* an engine call raised has made a proper prefix of these calls and
\* records no metrics: the session is unchanged.
C38_HoldProtocol ==
    [][\A t \in Tasks :
          (/\ pc[t] = "tool_body" /\ call[t].op = "press_button"
           /\ pc'[t] = "idle") =>
             LET d == call[t].duration
                 calls == last_use'.calls
                 Expected(i) == IF i = 2 * d + 1 THEN "release"
                                ELSE IF i % 2 = 1 THEN "press" ELSE "tick"
             IN /\ Len(calls) <= 2 * d + 1
                /\ \A i \in 1..Len(calls) : calls[i] = Expected(i)
                /\ result'.status = "ok" =>
                      /\ Len(calls) = 2 * d + 1
                      /\ ~HeldAfter(calls)
                      /\ session'.total_frames = session.total_frames + d
                      /\ session'.total_inputs = session.total_inputs + 1
                /\ result'.status # "ok" =>
                      /\ Len(calls) < 2 * d + 1
                      /\ result'.status = "ValueError"
                      /\ session' = session
                /\ session' # session =>
                      /\ calls # <<>>
                      /\ calls[Len(calls)] = "release"]_vars

C38_Witness ==
    /\ result.op = "press_button" /\ result.status = "ok"
    /\ last_use.calls = <<"press", "tick", "press", "tick", "release">>
    /\ session.total_frames = 2
    /\ session.total_inputs = 1

\* A hold that was interrupted by a failing tick: the engine has seen two
\* presses and no release, and no metric is recorded.
C38_InterruptedWitness ==
    /\ result.op = "press_button" /\ result.status = "ValueError"
    /\ last_use.calls = <<"press", "tick", "press">>
    /\ HeldAfter(last_use.calls)
    /\ session.total_frames = 0
    /\ session.total_inputs = 0

====
